---- MODULE Spec2Model ----
(***************************************************************************)
(* A model of the player kinematics, the tile collision resolver, the      *)
(* motion classifier and the sprite state machine of rust-story            *)
(* (src/src/player.rs, src/src/sprite.rs).                                 *)
(*                                                                         *)
(* Numbers.  The source computes in floating point; the model computes    *)
(* with exact decimals.  The unit is 1/102400: positions in 1/102400       *)
(* pixel, velocities in 1/102400 pixel per millisecond, accelerations in   *)
(* 1/102400 pixel per millisecond squared.  Six of the eight physics       *)
(* constants are whole numbers of that unit.  FRICTION and WALKING_ACCEL   *)
(* are not: the source writes 0.00049804687 and 0.00083007812, which are   *)
(* 51/102400 and 85/102400 less 0.000000000005.  So a quantity of the      *)
(* x axis is a pair <<a, b>> with 0 <= b < EPS, standing for               *)
(* a/102400 + b * 0.000000000005 (one unit is EPS = 1953125 of the small   *)
(* steps), and the arithmetic on pairs is exact.  A quantity of the y axis *)
(* is always a whole number of units (GRAVITY, JUMP_GRAVITY, JUMP_SPEED    *)
(* and MAX_VELOCITY_Y are) and is kept as the integer a.  Elapsed times    *)
(* are whole milliseconds, as in the source.                               *)
(***************************************************************************)
EXTENDS Integers, Sequences, FiniteSets, TLC

VARIABLES
    x, y,               \* Player.x, Player.y
    movement,           \* Player.movement: <<Motion, Facing, Looking>>
    on_ground,          \* Player.on_ground
    elapsed_time,       \* Player.elapsed_time
    velocity_x,         \* Player.velocity_x
    velocity_y,         \* Player.velocity_y
    accel_x,            \* Player.accel_x
    is_interacting,     \* Player.is_interacting
    is_jump_active,     \* Player.is_jump_active
    sprites,            \* Player.sprites: movement key -> sprite
    frames,             \* number of Player.update calls made so far
    failed,             \* an assert! of the collision helpers has failed the task
    anim,               \* a stand-alone AnimatedSprite
    anim_total,         \* sum of the elapsed times given to anim
    anim_ticks,         \* number of frame advances anim has made
    scan_tiles,         \* a sequence of tiles as get_colliding_tiles returns one
    scan_info           \* <<>>, or <<the Info get_collision_info made of it>>

vars == <<x, y, movement, on_ground, elapsed_time, velocity_x, velocity_y,
          accel_x, is_interacting, is_jump_active, sprites, frames,
          failed, anim, anim_total, anim_ticks, scan_tiles, scan_info>>

playerVars == <<x, y, movement, on_ground, elapsed_time, velocity_x,
                velocity_y, accel_x, is_interacting, is_jump_active, sprites>>

animVars == <<anim, anim_total, anim_ticks>>

scanVars == <<scan_tiles, scan_info>>

(***************************************************************************)
(* Bounds of the model.                                                    *)
(***************************************************************************)
MaxFrames == 2

MaxAnimFrames == 3

MaxTiles == 3

MaxSweepFrames == 1

MaxIdleFrames == 3

(***************************************************************************)
(* Units.                                                                  *)
(***************************************************************************)
SCALE == 102400

TILE_SIZE == 32

\* units::Tile::to_game
TileToGame(t) == t * TILE_SIZE * SCALE

\* units::Game::to_tile
GameToTile(g) == g \div (TILE_SIZE * SCALE)

\* units::Tile::to_pixel
TileToPixel(t) == t * TILE_SIZE

\* a whole number of pixels as a game-space quantity
Px(n) == n * SCALE

(***************************************************************************)
(* Exact numbers of the x axis: <<a, b>> is a/102400 + b * 5e-12.          *)
(***************************************************************************)
EPS == 1953125

\* the pair of a units and b small steps, b brought into 0 .. EPS - 1
Fine(a, b) == <<a + (b \div EPS), b % EPS>>

\* a whole number of units
Whole(a) == <<a, 0>>

Zero == Whole(0)

\* the whole units at or below f; a tile edge is a whole number of units, so
\* the tile of f is the tile of Floor(f)
Floor(f) == f[1]

Plus(f, g) == Fine(f[1] + g[1], f[2] + g[2])

Minus(f, g) == Fine(f[1] - g[1], f[2] - g[2])

Neg(f) == Fine(-f[1], -f[2])

\* f * n for an integer n
Times(f, n) == Fine(f[1] * n, f[2] * n)

\* f / 2 for an f whose two parts are even
Half(f) == <<f[1] \div 2, f[2] \div 2>>

Less(f, g) == f[1] < g[1] \/ (f[1] = g[1] /\ f[2] < g[2])

Leq(f, g) == ~Less(g, f)

FMin(f, g) == IF Less(f, g) THEN f ELSE g

FMax(f, g) == IF Less(g, f) THEN f ELSE g

(***************************************************************************)
(* player.rs: physics constants.                                           *)
(***************************************************************************)
\* 0.00049804687 = 99609374 * 5e-12 = 51/102400 - 5e-12
FRICTION == Fine(0, 99609374)

GRAVITY == 80

\* 0.00083007812 = 166015624 * 5e-12 = 85/102400 - 5e-12
WALKING_ACCEL == Fine(0, 166015624)

MAX_VELOCITY_X == 16240

MAX_VELOCITY_Y == 30700

AIR_ACCELERATION == 32

JUMP_GRAVITY == 32

JUMP_SPEED == 25600

CHAR_OFFSET == 12

SPRITE_NUM_FRAMES == 3

SPRITE_FPS == 20

STAND_FRAME == 0

JUMP_FRAME == 1

FALL_FRAME == 2

FACING_WEST == 0 + CHAR_OFFSET

FACING_EAST == 1 + CHAR_OFFSET

WALK_UP_OFFSET == 3

JUMP_DOWN_FRAME == 6

STAND_DOWN_FRAME == 7

X_BOX ==
    [x |-> Whole(Px(6)), y |-> Px(10), width |-> Whole(Px(20)), height |-> Px(12)]

Y_BOX ==
    [x |-> Whole(Px(10)), y |-> Px(2), width |-> Whole(Px(12)), height |-> Px(30)]

(***************************************************************************)
(* collisions::Rectangle; x and width are quantities of the x axis         *)
(***************************************************************************)
Left(r) == r.x

Right(r) == Plus(r.x, r.width)

Top(r) == r.y

Bottom(r) == r.y + r.height

Width(r) == r.width

Height(r) == r.height

(***************************************************************************)
(* sprite.rs: the three enumerations and the movement keys.                *)
(***************************************************************************)
Motion == {"Walking", "Standing", "Interacting", "Jumping", "Falling"}

Facing == {"West", "East"}

Looking == {"Up", "Down", "Horizontal"}

MOTIONS == <<"Walking", "Standing", "Interacting", "Jumping", "Falling">>

FACINGS == <<"West", "East">>

LOOKINGS == <<"Up", "Down", "Horizontal">>

MotionTup == Motion \X Facing \X Looking

Range(s) == {s[i] : i \in DOMAIN s}

\* F(v), with the argument v evaluated once, as a call evaluates it
Call(F(_), v) == CHOOSE r \in {F(q) : q \in {v}} : TRUE

(***************************************************************************)
(* The tile map.  Rows and columns count from 0; '#' is a Wall tile.       *)
(*                                                                         *)
(*        col 0 1 2 3 4 5 6 7                                              *)
(*   row 0    # # # # # # # #                                              *)
(*   row 1    # . . . . . . #                                              *)
(*   row 2    # . . . . . . #                                              *)
(*   row 3    # . . . . . . #                                              *)
(*   row 4    # . . . . . . #                                              *)
(*   row 5    # # # . . . . #                                              *)
(*   row 6    # . . . . . # #                                              *)
(*   row 7    # # # # # # # #                                              *)
(***************************************************************************)
Walls ==
    {<<0, c>> : c \in 0..7} \cup {<<7, c>> : c \in 0..7}
    \cup {<<r, 0>> : r \in 0..7} \cup {<<r, 7>> : r \in 0..7}
    \cup {<<5, 1>>, <<5, 2>>, <<6, 6>>}

TileType(row, col) == IF <<row, col>> \in Walls THEN "Wall" ELSE "Air"

\* map::Map::get_colliding_tiles: the tiles the rectangle overlaps, row by
\* row, each row from its first to its last column.
GetCollidingTiles(rect) ==
    LET first_row == GameToTile(Top(rect))
        last_row  == GameToTile(Bottom(rect))
        first_col == GameToTile(Floor(Left(rect)))
        last_col  == GameToTile(Floor(Right(rect)))
        ncols     == last_col - first_col + 1
        nrows     == last_row - first_row + 1
    IN  [i \in 1..(nrows * ncols) |->
            LET row == first_row + ((i - 1) \div ncols)
                col == first_col + ((i - 1) % ncols)
            IN  [row |-> row, col |-> col, tile_type |-> TileType(row, col)]]

\* a scan in which every Wall tile overwrites the result (no break)
ScanTiles_LastMatch(ts) ==
    LET hits == {i \in DOMAIN ts : ts[i].tile_type = "Wall"}
    IN  IF hits = {}
        THEN [collided |-> FALSE, row |-> 0, col |-> 0]
        ELSE LET i == CHOOSE k \in hits : \A j \in hits : k >= j
             IN  [collided |-> TRUE, row |-> ts[i].row, col |-> ts[i].col]

\* Player::get_collision_info, lines 272-280: the loop over the tiles, left
\* at the first Wall
ScanTiles(ts) ==
    LET hits == {i \in DOMAIN ts : ts[i].tile_type = "Wall"}
    IN  IF hits = {}
        THEN [collided |-> FALSE, row |-> 0, col |-> 0]
        ELSE LET i == CHOOSE k \in hits : \A j \in hits : k <= j
             IN  [collided |-> TRUE, row |-> ts[i].row, col |-> ts[i].col]

\* Player::get_collision_info: the first Wall tile of the sequence decides.
GetCollisionInfo(hitbox) == ScanTiles(GetCollidingTiles(hitbox))

(***************************************************************************)
(* sprite.rs: Sprite and AnimatedSprite.                                   *)
(***************************************************************************)
\* Sprite::new
NewSprite(coords, offset, size) ==
    [kind        |-> "Sprite",
     source_rect |-> [x |-> TileToPixel(offset[1]), y |-> TileToPixel(offset[2]),
                      w |-> TileToPixel(size[1]),   h |-> TileToPixel(size[2])],
     size        |-> size,
     coords      |-> coords]

\* AnimatedSprite::new
NewAnimatedSprite(offset, size, num_frames, fps) ==
    [kind          |-> "AnimatedSprite",
     source_rect   |-> [x |-> TileToPixel(offset[1]), y |-> TileToPixel(offset[2]),
                        w |-> TileToPixel(size[1]),   h |-> TileToPixel(size[2])],
     offset        |-> offset,
     size          |-> size,
     coords        |-> <<Zero, 0>>,
     fps           |-> fps,
     current_frame |-> 0,
     num_frames    |-> num_frames,
     last_update   |-> 0]

\* AnimatedSprite::update that carries the time beyond one frame interval over
AnimatedSpriteUpdate_KeepsExcess(s, elapsed) ==
    LET frame_time == 1000 \div s.fps
        last       == s.last_update + elapsed
    IN  IF last > frame_time
        THEN IF s.current_frame + 1 < s.num_frames
             THEN [s EXCEPT !.last_update = last - frame_time,
                            !.current_frame = s.current_frame + 1,
                            !.source_rect.x = s.source_rect.x + s.source_rect.w]
             ELSE [s EXCEPT !.last_update = last - frame_time,
                            !.current_frame = 0,
                            !.source_rect.x =
                                s.source_rect.x - s.source_rect.w * (s.num_frames - 1)]
        ELSE [s EXCEPT !.last_update = last]

\* AnimatedSprite::update whose wrap steps back one frame width too many
AnimatedSpriteUpdate_WrapTooFar(s, elapsed) ==
    LET frame_time == 1000 \div s.fps
        last       == s.last_update + elapsed
    IN  IF last > frame_time
        THEN IF s.current_frame + 1 < s.num_frames
             THEN [s EXCEPT !.last_update = 0,
                            !.current_frame = s.current_frame + 1,
                            !.source_rect.x = s.source_rect.x + s.source_rect.w]
             ELSE [s EXCEPT !.last_update = 0,
                            !.current_frame = 0,
                            !.source_rect.x =
                                s.source_rect.x - s.source_rect.w * s.num_frames]
        ELSE [s EXCEPT !.last_update = last]

\* AnimatedSprite::update
AnimatedSpriteUpdate(s, elapsed) ==
    LET frame_time == 1000 \div s.fps
        last       == s.last_update + elapsed
    IN  IF last > frame_time
        THEN IF s.current_frame + 1 < s.num_frames
             THEN [s EXCEPT !.last_update = 0,
                            !.current_frame = s.current_frame + 1,
                            !.source_rect.x = s.source_rect.x + s.source_rect.w]
             ELSE [s EXCEPT !.last_update = 0,
                            !.current_frame = 0,
                            !.source_rect.x =
                                s.source_rect.x - s.source_rect.w * (s.num_frames - 1)]
        ELSE [s EXCEPT !.last_update = last]

\* Updatable::update, by variant
SpriteUpdate(s, elapsed) ==
    IF s.kind = "AnimatedSprite" THEN AnimatedSpriteUpdate(s, elapsed) ELSE s

\* Updatable::set_position, the same for both variants
SpriteSetPosition(s, coords) == [s EXCEPT !.coords = coords]

(***************************************************************************)
(* player.rs: the Player.  The operations are written as operators on a    *)
(* record p holding the fields of the struct; Self is that record for the  *)
(* current state.                                                          *)
(***************************************************************************)
Self ==
    [x |-> x, y |-> y, movement |-> movement, on_ground |-> on_ground,
     elapsed_time |-> elapsed_time, velocity_x |-> velocity_x,
     velocity_y |-> velocity_y, accel_x |-> accel_x,
     is_interacting |-> is_interacting, is_jump_active |-> is_jump_active,
     sprites |-> sprites]

Min(a, b) == IF a < b THEN a ELSE b

Max(a, b) == IF a > b THEN a ELSE b

\* Player::on_ground
OnGround(p) == p.on_ground

\* Player::left_collision, line 482: the assertion on delta
LeftAssert(delta) == Leq(delta, Zero)

\* Player::right_collision, line 494: the assertion on delta
RightAssert(delta) == Leq(Zero, delta)

\* Player::top_collision, line 506: the assertion on delta
TopAssert(delta) == delta <= 0

\* Player::bottom_collision, line 517: the assertion on delta
BottomAssert(delta) == delta >= 0

\* Player::left_collision, the rectangle
LeftCollision(p, delta) ==
    [x      |-> Plus(p.x, Plus(Left(X_BOX), delta)),
     y      |-> p.y + Top(X_BOX),
     width  |-> Minus(Half(Width(X_BOX)), delta),
     height |-> Height(X_BOX)]

\* Player::right_collision
RightCollision(p, delta) ==
    [x      |-> Plus(Plus(p.x, Left(X_BOX)), Half(Width(X_BOX))),
     y      |-> p.y + Top(X_BOX),
     width  |-> Plus(Half(Width(X_BOX)), delta),
     height |-> Height(X_BOX)]

\* Player::top_collision
TopCollision(p, delta) ==
    [x      |-> Plus(p.x, Left(Y_BOX)),
     y      |-> p.y + (Top(Y_BOX) + delta),
     width  |-> Width(Y_BOX),
     height |-> (Height(Y_BOX) \div 2) - delta]

\* Player::bottom_collision
BottomCollision(p, delta) ==
    [x      |-> Plus(p.x, Left(Y_BOX)),
     y      |-> p.y + Top(Y_BOX) + (Height(Y_BOX) \div 2),
     width  |-> Width(Y_BOX),
     height |-> (Height(Y_BOX) \div 2) + delta]


\* current_motion that makes the player look ahead again
CurrentMotion_LooksAhead(p) ==
    LET last_facing  == p.movement[2]
        last_looking == "Horizontal"
    IN  [p EXCEPT !.movement =
            IF OnGround(p)
            THEN IF p.is_interacting
                 THEN <<"Interacting", last_facing, last_looking>>
                 ELSE IF p.accel_x = 0
                      THEN <<"Standing", last_facing, last_looking>>
                      ELSE <<"Walking", last_facing, last_looking>>
            ELSE IF p.velocity_y < 0
                 THEN <<"Jumping", last_facing, last_looking>>
                 ELSE <<"Falling", last_facing, last_looking>>]

\* current_motion with the ascent test widened to velocity_y <= 0
CurrentMotion_JumpAtRest(p) ==
    LET last_facing  == p.movement[2]
        last_looking == p.movement[3]
    IN  [p EXCEPT !.movement =
            IF OnGround(p)
            THEN IF p.is_interacting
                 THEN <<"Interacting", last_facing, last_looking>>
                 ELSE IF p.accel_x = 0
                      THEN <<"Standing", last_facing, last_looking>>
                      ELSE <<"Walking", last_facing, last_looking>>
            ELSE IF p.velocity_y <= 0
                 THEN <<"Jumping", last_facing, last_looking>>
                 ELSE <<"Falling", last_facing, last_looking>>]

\* Player::current_motion
CurrentMotion(p) ==
    LET last_facing  == p.movement[2]
        last_looking == p.movement[3]
    IN  [p EXCEPT !.movement =
            IF OnGround(p)
            THEN IF p.is_interacting
                 THEN <<"Interacting", last_facing, last_looking>>
                 ELSE IF p.accel_x = 0
                      THEN <<"Standing", last_facing, last_looking>>
                      ELSE <<"Walking", last_facing, last_looking>>
            ELSE IF p.velocity_y < 0
                 THEN <<"Jumping", last_facing, last_looking>>
                 ELSE <<"Falling", last_facing, last_looking>>]

\* Player::set_position
SetPosition(p, coords) ==
    [p EXCEPT !.sprites[p.movement] = SpriteSetPosition(@, coords)]

\* Player::update, line 139: the tick of the active sprite
TickSprite(p, elapsed) ==
    [p EXCEPT !.sprites[p.movement] = SpriteUpdate(@, elapsed)]

\* the next horizontal velocity without the caps under an intent
NextVelocityX_Uncapped(p) ==
    LET a  == IF p.accel_x < 0
              THEN (IF OnGround(p) THEN Neg(WALKING_ACCEL)
                                   ELSE Neg(Whole(AIR_ACCELERATION)))
              ELSE IF p.accel_x > 0
                   THEN (IF OnGround(p) THEN WALKING_ACCEL
                                        ELSE Whole(AIR_ACCELERATION))
                   ELSE Zero
        v1 == Plus(p.velocity_x, Times(a, p.elapsed_time))
    IN  IF p.accel_x # 0 THEN v1
        ELSE IF OnGround(p)
             THEN IF Less(Zero, v1)
                  THEN FMax(Zero, Minus(v1, Times(FRICTION, p.elapsed_time)))
                  ELSE FMin(Zero, Plus(v1, Times(FRICTION, p.elapsed_time)))
             ELSE v1

\* the next horizontal velocity with friction that is not stopped at 0
NextVelocityX_Overshoot(p) ==
    LET a  == IF p.accel_x < 0
              THEN (IF OnGround(p) THEN Neg(WALKING_ACCEL)
                                   ELSE Neg(Whole(AIR_ACCELERATION)))
              ELSE IF p.accel_x > 0
                   THEN (IF OnGround(p) THEN WALKING_ACCEL
                                        ELSE Whole(AIR_ACCELERATION))
                   ELSE Zero
        v1 == Plus(p.velocity_x, Times(a, p.elapsed_time))
    IN  IF p.accel_x < 0 THEN FMax(v1, Neg(Whole(MAX_VELOCITY_X)))
        ELSE IF p.accel_x > 0 THEN FMin(v1, Whole(MAX_VELOCITY_X))
        ELSE IF OnGround(p)
             THEN IF Less(Zero, v1)
                  THEN Minus(v1, Times(FRICTION, p.elapsed_time))
                  ELSE Plus(v1, Times(FRICTION, p.elapsed_time))
             ELSE v1

\* Player::update_x, lines 147-166: the next horizontal velocity
NextVelocityX(p) ==
    LET a  == IF p.accel_x < 0
              THEN (IF OnGround(p) THEN Neg(WALKING_ACCEL)
                                   ELSE Neg(Whole(AIR_ACCELERATION)))
              ELSE IF p.accel_x > 0
                   THEN (IF OnGround(p) THEN WALKING_ACCEL
                                        ELSE Whole(AIR_ACCELERATION))
                   ELSE Zero
        v1 == Plus(p.velocity_x, Times(a, p.elapsed_time))
    IN  IF p.accel_x < 0 THEN FMax(v1, Neg(Whole(MAX_VELOCITY_X)))
        ELSE IF p.accel_x > 0 THEN FMin(v1, Whole(MAX_VELOCITY_X))
        ELSE IF OnGround(p)
             THEN IF Less(Zero, v1)
                  THEN FMax(Zero, Minus(v1, Times(FRICTION, p.elapsed_time)))
                  ELSE FMin(Zero, Plus(v1, Times(FRICTION, p.elapsed_time)))
             ELSE v1

\* update_x that keeps the velocity when the leading edge hits a wall
ResolveX_KeepsVelocity(p) ==
    LET delta == Times(p.velocity_x, p.elapsed_time)
    IN  IF Less(Zero, delta)
        THEN LET info  == Call(GetCollisionInfo, RightCollision(p, delta))
                 p1    == IF info.collided
                          THEN [p EXCEPT !.x = Minus(Whole(TileToGame(info.col)), Right(X_BOX))]
                          ELSE [p EXCEPT !.x = Plus(p.x, delta)]
                 info2 == Call(GetCollisionInfo, LeftCollision(p1, Zero))
             IN  IF info2.collided
                 THEN [p1 EXCEPT !.x = Plus(Whole(TileToGame(info2.col)), Right(X_BOX))]
                 ELSE p1
        ELSE LET info  == Call(GetCollisionInfo, LeftCollision(p, delta))
                 p1    == IF info.collided
                          THEN [p EXCEPT !.x = Plus(Whole(TileToGame(info.col)), Right(X_BOX))]
                          ELSE [p EXCEPT !.x = Plus(p.x, delta)]
                 info2 == Call(GetCollisionInfo, RightCollision(p1, Zero))
             IN  IF info2.collided
                 THEN [p1 EXCEPT !.x = Minus(Whole(TileToGame(info2.col)), Right(X_BOX))]
                 ELSE p1

\* Player::update_x, lines 168-205: collision resolution along x
ResolveX(p) ==
    LET delta == Times(p.velocity_x, p.elapsed_time)
    IN  IF Less(Zero, delta)
        THEN LET info  == Call(GetCollisionInfo, RightCollision(p, delta))
                 p1    == IF info.collided
                          THEN [p EXCEPT !.velocity_x = Zero,
                                         !.x = Minus(Whole(TileToGame(info.col)), Right(X_BOX))]
                          ELSE [p EXCEPT !.x = Plus(p.x, delta)]
                 info2 == Call(GetCollisionInfo, LeftCollision(p1, Zero))
             IN  IF info2.collided
                 THEN [p1 EXCEPT !.x = Plus(Whole(TileToGame(info2.col)), Right(X_BOX))]
                 ELSE p1
        ELSE LET info  == Call(GetCollisionInfo, LeftCollision(p, delta))
                 p1    == IF info.collided
                          THEN [p EXCEPT !.velocity_x = Zero,
                                         !.x = Plus(Whole(TileToGame(info.col)), Right(X_BOX))]
                          ELSE [p EXCEPT !.x = Plus(p.x, delta)]
                 info2 == Call(GetCollisionInfo, RightCollision(p1, Zero))
             IN  IF info2.collided
                 THEN [p1 EXCEPT !.x = Minus(Whole(TileToGame(info2.col)), Right(X_BOX))]
                 ELSE p1

\* update_x that takes the helpers of the other direction
AssertsX_OtherHelper(p) ==
    LET delta == Times(NextVelocityX(p), p.elapsed_time)
    IN  IF Less(Zero, delta)
        THEN LeftAssert(delta) /\ RightAssert(Zero)
        ELSE RightAssert(delta) /\ LeftAssert(Zero)

\* Player::update_x, lines 168-205: the assertions of the two helper calls
\* it makes hold
AssertsX(p) ==
    LET delta == Times(NextVelocityX(p), p.elapsed_time)
    IN  IF Less(Zero, delta)
        THEN RightAssert(delta) /\ LeftAssert(Zero)
        ELSE LeftAssert(delta) /\ RightAssert(Zero)

\* Player::update_x
UpdateX(p) == Call(ResolveX, [p EXCEPT !.velocity_x = NextVelocityX(p)])

\* gravity that stays reduced for as long as the jump is held
GravityOf_WhileHeld(p) ==
    IF p.is_jump_active THEN JUMP_GRAVITY ELSE GRAVITY

\* Player::update_y, lines 210-216: the gravity of this frame
GravityOf(p) ==
    IF p.is_jump_active /\ p.velocity_y < 0 THEN JUMP_GRAVITY ELSE GRAVITY

\* the next vertical velocity without the cap
NextVelocityY_Uncapped(p) ==
    p.velocity_y + (GravityOf(p) * p.elapsed_time)

\* Player::update_y, lines 218-221: the next vertical velocity
NextVelocityY(p) ==
    Min(p.velocity_y + (GravityOf(p) * p.elapsed_time), MAX_VELOCITY_Y)

\* update_y that does not raise on_ground when the falling player hits a floor
ResolveY_NoGroundFlag(p) ==
    LET delta == p.velocity_y * p.elapsed_time
    IN  IF delta > 0
        THEN LET info  == Call(GetCollisionInfo, BottomCollision(p, delta))
                 p1    == IF info.collided
                          THEN [p EXCEPT !.velocity_y = 0,
                                         !.y = TileToGame(info.row) - Bottom(Y_BOX)]
                          ELSE [p EXCEPT !.on_ground = FALSE,
                                         !.y = p.y + delta]
                 info2 == Call(GetCollisionInfo, TopCollision(p1, 0))
             IN  IF info2.collided
                 THEN [p1 EXCEPT !.y = TileToGame(info2.row) + Height(Y_BOX)]
                 ELSE p1
        ELSE LET info  == Call(GetCollisionInfo, TopCollision(p, delta))
                 p1    == IF info.collided
                          THEN [p EXCEPT !.velocity_y = 0,
                                         !.y = TileToGame(info.row) + Height(Y_BOX)]
                          ELSE [p EXCEPT !.on_ground = FALSE,
                                         !.y = p.y + delta]
                 info2 == Call(GetCollisionInfo, BottomCollision(p1, 0))
             IN  IF info2.collided
                 THEN [p1 EXCEPT !.on_ground = TRUE,
                                 !.y = TileToGame(info2.row) - Bottom(Y_BOX)]
                 ELSE p1

\* Player::update_y, lines 223-265: collision resolution along y
ResolveY(p) ==
    LET delta == p.velocity_y * p.elapsed_time
    IN  IF delta > 0
        THEN LET info  == Call(GetCollisionInfo, BottomCollision(p, delta))
                 p1    == IF info.collided
                          THEN [p EXCEPT !.velocity_y = 0,
                                         !.on_ground = TRUE,
                                         !.y = TileToGame(info.row) - Bottom(Y_BOX)]
                          ELSE [p EXCEPT !.on_ground = FALSE,
                                         !.y = p.y + delta]
                 info2 == Call(GetCollisionInfo, TopCollision(p1, 0))
             IN  IF info2.collided
                 THEN [p1 EXCEPT !.y = TileToGame(info2.row) + Height(Y_BOX)]
                 ELSE p1
        ELSE LET info  == Call(GetCollisionInfo, TopCollision(p, delta))
                 p1    == IF info.collided
                          THEN [p EXCEPT !.velocity_y = 0,
                                         !.y = TileToGame(info.row) + Height(Y_BOX)]
                          ELSE [p EXCEPT !.on_ground = FALSE,
                                         !.y = p.y + delta]
                 info2 == Call(GetCollisionInfo, BottomCollision(p1, 0))
             IN  IF info2.collided
                 THEN [p1 EXCEPT !.on_ground = TRUE,
                                 !.y = TileToGame(info2.row) - Bottom(Y_BOX)]
                 ELSE p1

\* Player::update_y, lines 223-265: the assertions of the two helper calls
\* it makes hold
AssertsY(p) ==
    LET delta == NextVelocityY(p) * p.elapsed_time
    IN  IF delta > 0
        THEN BottomAssert(delta) /\ TopAssert(0)
        ELSE TopAssert(delta) /\ BottomAssert(0)

\* Player::update_y
UpdateY(p) == Call(ResolveY, [p EXCEPT !.velocity_y = NextVelocityY(p)])

\* update with the two physics calls exchanged
PlayerUpdate_YBeforeX(p, elapsed) ==
    LET Positioned(q) == SetPosition(q, <<q.x, q.y>>)
        Ticked(q)     == TickSprite(q, elapsed)
        p0 == [p EXCEPT !.elapsed_time = elapsed]
        p1 == Call(CurrentMotion, p0)
        p2 == Call(Positioned, p1)
        p3 == Call(Ticked, p2)
        p4 == Call(UpdateY, p3)
    IN  Call(UpdateX, p4)

\* Player::update
PlayerUpdate(p, elapsed) ==
    LET Positioned(q) == SetPosition(q, <<q.x, q.y>>)
        Ticked(q)     == TickSprite(q, elapsed)
        p0 == [p EXCEPT !.elapsed_time = elapsed]
        p1 == Call(CurrentMotion, p0)
        p2 == Call(Positioned, p1)
        p3 == Call(Ticked, p2)
        p4 == Call(UpdateX, p3)
    IN  Call(UpdateY, p4)

\* Player::update: no assertion fails on the way (update_y is only reached
\* when update_x has returned)
PlayerUpdateAsserts(p, elapsed) ==
    LET Positioned(q) == SetPosition(q, <<q.x, q.y>>)
        Ticked(q)     == TickSprite(q, elapsed)
        p0 == [p EXCEPT !.elapsed_time = elapsed]
        p1 == Call(CurrentMotion, p0)
        p2 == Call(Positioned, p1)
        p3 == Call(Ticked, p2)
    IN  Call(AssertsX, p3) /\ Call(AssertsY, Call(UpdateX, p3))

\* Player::set_facing
SetFacing(p, direction) ==
    [p EXCEPT !.movement = <<p.movement[1], direction, p.movement[3]>>]

\* Player::set_looking
SetLooking(p, direction) ==
    [p EXCEPT !.movement = <<p.movement[1], p.movement[2], direction>>]

\* start_moving_left that leaves the interacting flag alone
PlayerStartMovingLeft_KeepsInteracting(p) ==
    [SetFacing(p, "West") EXCEPT !.accel_x = -1]

\* Player::start_moving_left
PlayerStartMovingLeft(p) ==
    [SetFacing([p EXCEPT !.is_interacting = FALSE], "West") EXCEPT !.accel_x = -1]

\* Player::start_moving_right
PlayerStartMovingRight(p) ==
    [SetFacing([p EXCEPT !.is_interacting = FALSE], "East") EXCEPT !.accel_x = 1]

\* stop_moving that also stops the player
PlayerStopMoving_Brakes(p) == [p EXCEPT !.accel_x = 0, !.velocity_x = Zero]

\* Player::stop_moving
PlayerStopMoving(p) == [p EXCEPT !.accel_x = 0]

\* Player::look_up
PlayerLookUp(p) == SetLooking([p EXCEPT !.is_interacting = FALSE], "Up")

\* look_down that sets the interacting flag in the air too
PlayerLookDown_InteractsInAir(p) ==
    IF p.movement[3] = "Down" THEN p
    ELSE IF p.movement[1] = "Walking" THEN p
    ELSE SetLooking([p EXCEPT !.is_interacting = TRUE], "Down")

\* look_down without the Walking check
PlayerLookDown_WhileWalking(p) ==
    IF p.movement[3] = "Down" THEN p
    ELSE SetLooking([p EXCEPT !.is_interacting = OnGround(p)], "Down")

\* Player::look_down
PlayerLookDown(p) ==
    IF p.movement[3] = "Down" THEN p
    ELSE IF p.movement[1] = "Walking" THEN p
    ELSE SetLooking([p EXCEPT !.is_interacting = OnGround(p)], "Down")

\* Player::look_horizontal
PlayerLookHorizontal(p) == SetLooking(p, "Horizontal")

\* start_jump that sets the jump velocity in the air too
PlayerStartJump_InAir(p) ==
    [p EXCEPT !.is_jump_active = TRUE, !.is_interacting = FALSE,
              !.velocity_y = -JUMP_SPEED]

\* Player::start_jump
PlayerStartJump(p) ==
    LET p1 == [p EXCEPT !.is_jump_active = TRUE, !.is_interacting = FALSE]
    IN  IF OnGround(p1) THEN [p1 EXCEPT !.velocity_y = -JUMP_SPEED] ELSE p1

\* Player::stop_jump
PlayerStopJump(p) == [p EXCEPT !.is_jump_active = FALSE]

\* Player::load_sprite: the sprite built for one movement key
LoadSprite(key) ==
    LET motion == key[1]
        facing == key[2]
        looking == key[3]
        motion_frame ==
            CASE motion \in {"Standing", "Walking"} -> STAND_FRAME
              [] motion = "Interacting" -> STAND_DOWN_FRAME
              [] motion = "Jumping" -> JUMP_FRAME
              [] motion = "Falling" -> FALL_FRAME
        facing_frame == IF facing = "West" THEN FACING_WEST ELSE FACING_EAST
    IN  CASE motion \in {"Standing", "Interacting"} ->
               LET looking_frame == IF looking = "Up" THEN WALK_UP_OFFSET ELSE 0
               IN  NewSprite(<<Zero, 0>>, <<motion_frame + looking_frame, facing_frame>>,
                             <<1, 1>>)
          [] motion \in {"Jumping", "Falling"} ->
               LET looking_frame ==
                       CASE looking = "Down" -> JUMP_DOWN_FRAME
                         [] looking = "Up" -> WALK_UP_OFFSET
                         [] OTHER -> motion_frame
               IN  NewSprite(<<Zero, 0>>, <<looking_frame, facing_frame>>, <<1, 1>>)
          [] motion = "Walking" ->
               LET looking_frame == IF looking = "Up" THEN WALK_UP_OFFSET ELSE 0
               IN  NewAnimatedSprite(<<motion_frame + looking_frame, facing_frame>>,
                                     <<1, 1>>, SPRITE_NUM_FRAMES, SPRITE_FPS)

\* loops that leave out the first entry of MOTIONS
LoadedKeys_SkipFirstMotion ==
    Range(Tail(MOTIONS)) \X Range(FACINGS) \X Range(LOOKINGS)

\* Player::new, lines 112-119: the keys the three loops visit
LoadedKeys == Range(MOTIONS) \X Range(FACINGS) \X Range(LOOKINGS)

\* Player::new
PlayerNew(x0, y0) ==
    [x |-> x0, y |-> y0,
     movement |-> <<"Standing", "East", "Horizontal">>,
     on_ground |-> FALSE,
     elapsed_time |-> 0,
     velocity_x |-> Zero,
     velocity_y |-> 0,
     accel_x |-> 1,
     is_interacting |-> FALSE,
     is_jump_active |-> FALSE,
     sprites |-> [key \in LoadedKeys |-> LoadSprite(key)]]

(***************************************************************************)
(* The state machine.                                                      *)
(***************************************************************************)
\* the inputs of Player::new and Player::update that the model explores
Spawns ==
    {<<Whole(Px(100)), Px(50)>>, <<Whole(Px(163)), Px(176)>>,
     <<Whole(Px(40)), Px(191)>>}

ElapsedTimes == {0, 100, 400}

\* the next state holds the fields of p
Becomes(p) ==
    /\ x' = p.x
    /\ y' = p.y
    /\ movement' = p.movement
    /\ on_ground' = p.on_ground
    /\ elapsed_time' = p.elapsed_time
    /\ velocity_x' = p.velocity_x
    /\ velocity_y' = p.velocity_y
    /\ accel_x' = p.accel_x
    /\ is_interacting' = p.is_interacting
    /\ is_jump_active' = p.is_jump_active
    /\ sprites' = p.sprites

\* the state holds the fields of p
Holds(p) ==
    /\ x = p.x
    /\ y = p.y
    /\ movement = p.movement
    /\ on_ground = p.on_ground
    /\ elapsed_time = p.elapsed_time
    /\ velocity_x = p.velocity_x
    /\ velocity_y = p.velocity_y
    /\ accel_x = p.accel_x
    /\ is_interacting = p.is_interacting
    /\ is_jump_active = p.is_jump_active
    /\ sprites = p.sprites

AnimIdle == NewAnimatedSprite(<<0, 0>>, <<1, 1>>, SPRITE_NUM_FRAMES, SPRITE_FPS)

Init ==
    /\ \E s \in Spawns : Holds(PlayerNew(s[1], s[2]))
    /\ frames = 0
    /\ failed = FALSE
    /\ anim = AnimIdle
    /\ anim_total = 0
    /\ anim_ticks = 0
    /\ scan_tiles = <<>>
    /\ scan_info = <<>>

\* one call of Player::update
Frame(elapsed) ==
    /\ ~failed
    /\ IF PlayerUpdateAsserts(Self, elapsed)
       THEN /\ \E p \in {PlayerUpdate(Self, elapsed)} : Becomes(p)
            /\ UNCHANGED failed
       ELSE /\ failed' = TRUE
            /\ UNCHANGED playerVars
    /\ UNCHANGED <<animVars, scanVars>>

Update(elapsed) ==
    /\ frames < MaxFrames
    /\ Frame(elapsed)
    /\ frames' = frames + 1

\* a call of a public operation other than update is explored while an
\* update can still follow it
Controllable == ~failed /\ frames < MaxFrames

StartMovingLeft ==
    Controllable /\ Becomes(PlayerStartMovingLeft(Self)) /\ UNCHANGED <<frames, failed, animVars, scanVars>>

StartMovingRight ==
    Controllable /\ Becomes(PlayerStartMovingRight(Self)) /\ UNCHANGED <<frames, failed, animVars, scanVars>>

StopMoving ==
    Controllable /\ Becomes(PlayerStopMoving(Self)) /\ UNCHANGED <<frames, failed, animVars, scanVars>>

LookUp ==
    Controllable /\ Becomes(PlayerLookUp(Self)) /\ UNCHANGED <<frames, failed, animVars, scanVars>>

LookDown ==
    Controllable /\ Becomes(PlayerLookDown(Self)) /\ UNCHANGED <<frames, failed, animVars, scanVars>>

LookHorizontal ==
    Controllable /\ Becomes(PlayerLookHorizontal(Self)) /\ UNCHANGED <<frames, failed, animVars, scanVars>>

StartJump ==
    Controllable /\ Becomes(PlayerStartJump(Self)) /\ UNCHANGED <<frames, failed, animVars, scanVars>>

StopJump ==
    Controllable /\ Becomes(PlayerStopJump(Self)) /\ UNCHANGED <<frames, failed, animVars, scanVars>>

\* a call of the public set_facing
CallSetFacing(direction) ==
    Controllable /\ Becomes(SetFacing(Self, direction)) /\ UNCHANGED <<frames, failed, animVars, scanVars>>

\* a call of the public set_looking
CallSetLooking(direction) ==
    Controllable /\ Becomes(SetLooking(Self, direction)) /\ UNCHANGED <<frames, failed, animVars, scanVars>>

\* a call of the public current_motion
CallCurrentMotion ==
    Controllable /\ Becomes(CurrentMotion(Self)) /\ UNCHANGED <<frames, failed, animVars, scanVars>>

Next ==
    \/ \E e \in ElapsedTimes : Update(e)
    \/ StartMovingLeft
    \/ StartMovingRight
    \/ StopMoving
    \/ LookUp
    \/ LookDown
    \/ LookHorizontal
    \/ StartJump
    \/ StopJump
    \/ \E d \in Facing : CallSetFacing(d)
    \/ \E d \in Looking : CallSetLooking(d)
    \/ CallCurrentMotion

Spec == Init /\ [][Next]_vars

(***************************************************************************)
(* The landing scenario: a player is constructed in the air, stop_moving   *)
(* is called once, and from then on the main loop calls update for ever,   *)
(* each time with a positive elapsed time; no other control is called.     *)
(***************************************************************************)
LandingTimes == {40, 70, 100}

LandingStop == accel_x # 0 /\ StopMoving

LandingUpdate(elapsed) == accel_x = 0 /\ Frame(elapsed) /\ UNCHANGED frames

LandingNext == LandingStop \/ \E e \in LandingTimes : LandingUpdate(e)

SpecLanding == Init /\ [][LandingNext]_vars /\ WF_vars(LandingNext)

(***************************************************************************)
(* Single frames from many places: the player is built at any point of a   *)
(* grid where neither collision box is inside a Wall, takes control calls  *)
(* and up to MaxSweepFrames updates.  320 ms is the elapsed time at which  *)
(* an airborne player starting from rest with accel_x = 1 moves exactly    *)
(* one tile width (0.0003125 * 320 * 320 = 32).                            *)
(***************************************************************************)
\* tiles of which the rectangle from (left, top) to (right, bottom) covers
\* more than an edge
InsideRows(top, bottom) == GameToTile(top)..GameToTile(bottom - 1)

InsideCols(left, right) ==
    GameToTile(Floor(left))..GameToTile(Floor(Minus(right, Fine(0, 1))))

\* a Wall tile reaches into the rectangle
Penetrates(rect) ==
    \E r \in InsideRows(Top(rect), Bottom(rect)) :
        \E c \in InsideCols(Left(rect), Right(rect)) : TileType(r, c) = "Wall"

\* the X and the Y collision box of a player at (px, py)
XBoxAt(px, py) ==
    [x |-> Plus(px, Left(X_BOX)), y |-> py + Top(X_BOX),
     width |-> Width(X_BOX), height |-> Height(X_BOX)]

YBoxAt(px, py) ==
    [x |-> Plus(px, Left(Y_BOX)), y |-> py + Top(Y_BOX),
     width |-> Width(Y_BOX), height |-> Height(Y_BOX)]

SweepXs ==
    {Whole(Px(n)) : n \in {38, 70, 102, 134, 163, 166, 198}}

SweepYs == {Px(30), Px(62), Px(100), Px(128), Px(159), Px(176), Px(191), Px(192)}

SweepSpawns ==
    {s \in SweepXs \X SweepYs :
        ~Penetrates(XBoxAt(s[1], s[2])) /\ ~Penetrates(YBoxAt(s[1], s[2]))}

SweepTimes == {100, 320}

SweepInit ==
    /\ \E s \in SweepSpawns : Holds(PlayerNew(s[1], s[2]))
    /\ frames = 0
    /\ failed = FALSE
    /\ anim = AnimIdle
    /\ anim_total = 0
    /\ anim_ticks = 0
    /\ scan_tiles = <<>>
    /\ scan_info = <<>>

SweepUpdate(elapsed) ==
    /\ frames < MaxSweepFrames
    /\ Frame(elapsed)
    /\ frames' = frames + 1

\* the calls of the public operations other than update, explored while a
\* sweep update can still follow
SweepCall ==
    /\ frames < MaxSweepFrames
    /\ \/ StartMovingLeft
       \/ StartMovingRight
       \/ StopMoving
       \/ LookUp
       \/ LookDown
       \/ LookHorizontal
       \/ StartJump
       \/ StopJump
       \/ \E d \in Facing : CallSetFacing(d)
       \/ \E d \in Looking : CallSetLooking(d)
       \/ CallCurrentMotion

SweepNext ==
    \/ \E e \in SweepTimes : SweepUpdate(e)
    \/ SweepCall

SpecSweep == SweepInit /\ [][SweepNext]_vars

(***************************************************************************)
(* A player left alone: it is built at any of the grid's points and then   *)
(* only updated, up to MaxIdleFrames times; no control operation is called.*)
(***************************************************************************)
IdleUpdate(elapsed) ==
    /\ frames < MaxIdleFrames
    /\ Frame(elapsed)
    /\ frames' = frames + 1

IdleNext == \E e \in ElapsedTimes : IdleUpdate(e)

SpecIdle == SweepInit /\ [][IdleNext]_vars

(***************************************************************************)
(* get_collision_info on its own: the map hands back any sequence of up to *)
(* MaxTiles tiles and the scan is run on it.                               *)
(***************************************************************************)
\* rows and columns of the tiles handed back
TileCoords == 0..1
\* the tiles that can be handed back
TileRecords ==
    [row : TileCoords, col : TileCoords, tile_type : {"Air", "Wall"}]

TileSeqs == UNION {[1..n -> TileRecords] : n \in 0..MaxTiles}

TilesInit ==
    /\ Holds(PlayerNew(Whole(Px(100)), Px(50)))
    /\ frames = 0
    /\ failed = FALSE
    /\ anim = AnimIdle
    /\ anim_total = 0
    /\ anim_ticks = 0
    /\ scan_tiles \in TileSeqs
    /\ scan_info = <<>>

Scan ==
    /\ scan_info = <<>>
    /\ scan_info' = <<ScanTiles(scan_tiles)>>
    /\ UNCHANGED <<playerVars, frames, failed, animVars, scan_tiles>>

TilesNext == Scan

SpecTiles == TilesInit /\ [][TilesNext]_vars

(***************************************************************************)
(* One AnimatedSprite on its own: a sprite of 1..MaxAnimFrames frames is   *)
(* built and then only updated, with the elapsed times and the frame       *)
(* advances counted.                                                       *)
(***************************************************************************)
\* the updates stop once this many milliseconds have been fed
MaxAnimTotal == 210
\* frame rates: SPRITE_FPS and a rate that does not divide 1000
AnimFps == {SPRITE_FPS, 30}
\* sheet offsets, in tiles: the walking rows of load_sprite
AnimOffsets == {<<STAND_FRAME, FACING_WEST>>, <<STAND_FRAME + WALK_UP_OFFSET, FACING_EAST>>}
\* elapsed times of one update call
AnimTimes == {0, 17, 33, 34, 50, 51, 100, 150}

SpriteInit ==
    /\ Holds(PlayerNew(Whole(Px(100)), Px(50)))
    /\ frames = 0
    /\ failed = FALSE
    /\ \E n \in 1..MaxAnimFrames, f \in AnimFps, o \in AnimOffsets :
           anim = NewAnimatedSprite(o, <<1, 1>>, n, f)
    /\ anim_total = 0
    /\ anim_ticks = 0
    /\ scan_tiles = <<>>
    /\ scan_info = <<>>

AnimUpdate(elapsed) ==
    /\ anim_total + elapsed <= MaxAnimTotal
    /\ anim' = AnimatedSpriteUpdate(anim, elapsed)
    /\ anim_total' = anim_total + elapsed
    /\ anim_ticks' = IF anim.last_update + elapsed > 1000 \div anim.fps
                     THEN anim_ticks + 1 ELSE anim_ticks
    /\ UNCHANGED <<playerVars, frames, failed, scanVars>>

SpriteNext == \E e \in AnimTimes : AnimUpdate(e)

SpecSprite == SpriteInit /\ [][SpriteNext]_vars

(***************************************************************************)
(* Properties.                                                             *)
(***************************************************************************)
\* the Motion that section 4.4 of the specification prescribes
PrescribedMotion(ground, interacting, intent, vy) ==
    CASE ground /\ interacting -> "Interacting"
      [] ground /\ ~interacting /\ intent = 0 -> "Standing"
      [] ground /\ ~interacting /\ intent # 0 -> "Walking"
      [] ~ground /\ vy < 0 -> "Jumping"
      [] ~ground /\ vy >= 0 -> "Falling"

\* C1: every Player.update classifies the motion from the state at the start
\* of the call, repositions and ticks (once) the sprite of the key so chosen
\* and no other sprite, at the position the player has before the physics
\* runs, then resolves X from that state, and resolves Y only from the state
\* X resolution has left.
C1_UpdateOrder ==
    [][\A e \in ElapsedTimes : Update(e) =>
        LET key    == <<PrescribedMotion(on_ground, is_interacting, accel_x, velocity_y),
                        movement[2], movement[3]>>
            start  == [Self EXCEPT !.elapsed_time = e]
            afterX == UpdateX(start)
            afterY == UpdateY(afterX)
        IN  /\ movement' = key
            /\ sprites'[key] = SpriteUpdate(SpriteSetPosition(sprites[key], <<x, y>>), e)
            /\ \A k \in DOMAIN sprites \ {key} : sprites'[k] = sprites[k]
            /\ x' = afterX.x
            /\ velocity_x' = afterX.velocity_x
            /\ afterX.y = y /\ afterX.velocity_y = velocity_y
            /\ afterX.on_ground = on_ground
            /\ y' = afterY.y
            /\ velocity_y' = afterY.velocity_y
            /\ on_ground' = afterY.on_ground]_vars

\* C1 witness: two updates have run, the second classified Walking, moved the
\* walking sprite to where the player stood and advanced its animation.
C1_Witness ==
    /\ frames = 2
    /\ movement[1] = "Walking"
    /\ sprites[movement].current_frame = 1
    /\ sprites[movement].coords # <<Zero, 0>>
    /\ sprites[movement].coords[1] # x
    /\ sprites[movement].coords[2] = y

\* C2: on every reachable state current_motion yields the Motion of the
\* table (Interacting / Standing / Walking on the ground, Jumping / Falling
\* in the air, by the sign of velocity_y), keeps Facing and Looking, and a
\* second invocation changes nothing.
C2_Classifier ==
    LET m == CurrentMotion(Self).movement[1]
    IN  /\ (on_ground /\ is_interacting) => m = "Interacting"
        /\ (on_ground /\ ~is_interacting /\ accel_x = 0) => m = "Standing"
        /\ (on_ground /\ ~is_interacting /\ accel_x # 0) => m = "Walking"
        /\ (~on_ground /\ velocity_y < 0) => m = "Jumping"
        /\ (~on_ground /\ velocity_y >= 0) => m = "Falling"
        /\ CurrentMotion(CurrentMotion(Self)) = CurrentMotion(Self)
        /\ \A other \in Motion \X Facing \X Looking :
              CurrentMotion([Self EXCEPT !.movement = other]).movement[1] = m

\* C2 witness: the classifier has acted on a grounded, non-interacting player
\* with a horizontal intent and chosen Walking.
C2_Witness ==
    /\ frames > 0
    /\ on_ground /\ ~is_interacting /\ accel_x # 0
    /\ movement[1] = "Walking"

\* the rows of tiles the X collision box of a player at height py spans
XBoxRows(py) == GameToTile(py + Top(X_BOX)) .. GameToTile(py + Bottom(X_BOX))

\* some tile of column c in the given rows is a Wall
WallInColumn(rows, c) == \E r \in rows : TileType(r, c) = "Wall"

\* the horizontal delta Player.update(e) computes from the current state
DeltaX(e) == Times(NextVelocityX([Self EXCEPT !.elapsed_time = e]), e)

\* column c holds the wall immediately to the right of the X collision box:
\* a Wall in the rows of the box, at or beyond its right edge, with no Wall
\* in those rows from the column of the box's left edge up to c
WallImmediatelyRight(c) ==
    /\ WallInColumn(XBoxRows(y), c)
    /\ Leq(Plus(x, Right(X_BOX)), Whole(TileToGame(c)))
    /\ \A c2 \in GameToTile(Floor(Plus(x, Left(X_BOX)))) .. (c - 1) :
           ~WallInColumn(XBoxRows(y), c2)

WallColumns == {w[2] : w \in Walls}

\* C3 as stated: whenever the rightward delta of a frame reaches the wall
\* immediately to the right of the X collision box, update_x leaves the
\* box's right edge on the wall's left edge and velocity_x at 0.
C3_SnapRight_AnyDelta ==
    [][\A e \in ElapsedTimes : \A c \in WallColumns :
        (/\ WallImmediatelyRight(c)
         /\ Less(Zero, DeltaX(e))
         /\ Leq(Whole(TileToGame(c)), Plus(Plus(x, Right(X_BOX)), DeltaX(e)))
         /\ Update(e))
        => (Plus(x', Right(X_BOX)) = Whole(TileToGame(c)) /\ velocity_x' = Zero)]_vars

\* C3 amended: the same, for a rightward delta smaller than one tile width.
C3_SnapRight ==
    [][\A e \in ElapsedTimes : \A c \in WallColumns :
        (/\ WallImmediatelyRight(c)
         /\ Less(Zero, DeltaX(e))
         /\ Less(DeltaX(e), Whole(TileToGame(1)))
         /\ Leq(Whole(TileToGame(c)), Plus(Plus(x, Right(X_BOX)), DeltaX(e)))
         /\ Update(e))
        => (Plus(x', Right(X_BOX)) = Whole(TileToGame(c)) /\ velocity_x' = Zero)]_vars

\* C3 witness: an update with a positive elapsed time has stopped the player
\* against the block at column 6: the box's right edge is on the block's left
\* edge (no spawn point is there) and velocity_x is 0.
C3_Witness ==
    /\ frames = 1
    /\ elapsed_time = 100
    /\ accel_x = 1
    /\ velocity_x = Zero
    /\ Plus(x, Right(X_BOX)) = Whole(TileToGame(6))
    /\ WallInColumn(XBoxRows(y), 6)

\* the player stands on the floor row (row 7) of the map
Landed ==
    /\ on_ground
    /\ velocity_y = 0
    /\ y = TileToGame(7) - Bottom(Y_BOX)

\* C4: in the landing scenario the player eventually stands on the floor
\* (on_ground, velocity_y = 0, y = floor top - Y_BOX.bottom) and is in such a
\* state after every later update.
C4_Landing == <>[]Landed

\* C4 witness: the player has fallen from its spawn point and landed.
C4_Witness ==
    /\ Landed
    /\ accel_x = 0
    /\ elapsed_time > 0
    /\ movement[1] = "Falling"

\* C5: start_jump on the ground sets velocity_y to -JUMP_SPEED, in the air
\* leaves velocity_y as it is; either way it leaves on_ground as it is, sets
\* is_jump_active and clears is_interacting, and touches no other field.
\* on_ground is cleared by update alone.
C5_StartJump ==
    [][/\ StartJump =>
            /\ on_ground => velocity_y' = -JUMP_SPEED
            /\ ~on_ground => velocity_y' = velocity_y
            /\ on_ground' = on_ground
            /\ is_jump_active' = TRUE
            /\ is_interacting' = FALSE
            /\ UNCHANGED <<x, y, movement, velocity_x, accel_x, elapsed_time, sprites>>
       /\ (on_ground /\ ~on_ground') => \E e \in ElapsedTimes : Update(e)]_vars

\* C5 witness: start_jump has been called on the ground; the player still
\* counts as on the ground and has the jump velocity.
C5_Witness ==
    /\ on_ground
    /\ velocity_y = -JUMP_SPEED
    /\ is_jump_active
    /\ ~is_interacting

\* the state update_y starts from in Player.update(e), given the x that
\* update_x has left
BeforeY(e, newx) == [Self EXCEPT !.elapsed_time = e, !.x = newx]

\* update_y finds no Wall, neither on its leading nor on its trailing edge
NoCollisionY(p) ==
    LET v     == NextVelocityY(p)
        delta == v * p.elapsed_time
        moved == [p EXCEPT !.y = p.y + delta]
    IN  IF delta > 0
        THEN /\ ~GetCollisionInfo(BottomCollision(p, delta)).collided
             /\ ~GetCollisionInfo(TopCollision(moved, 0)).collided
        ELSE /\ ~GetCollisionInfo(TopCollision(p, delta)).collided
             /\ ~GetCollisionInfo(BottomCollision(moved, 0)).collided

\* C6: velocity_y never exceeds MAX_VELOCITY_Y, and an update of an airborne
\* player without horizontal intent whose update_y finds no collision never
\* lowers velocity_y, whatever the elapsed time (0 included).
C6_FallSpeed ==
    /\ [](velocity_y <= MAX_VELOCITY_Y)
    /\ [][\A e \in ElapsedTimes :
            (Update(e) /\ ~on_ground /\ accel_x = 0 /\ NoCollisionY(BeforeY(e, x')))
            => velocity_y' >= velocity_y]_vars

\* C6 witness: a player without horizontal intent has fallen freely for one
\* update and reached the fall-speed cap.
C6_Witness ==
    /\ frames = 1
    /\ ~on_ground
    /\ accel_x = 0
    /\ velocity_y = MAX_VELOCITY_Y

\* C7: an update of a grounded player without horizontal intent never raises
\* the magnitude of velocity_x, never changes its sign, and keeps 0 at 0.
C7_Friction ==
    [][\A e \in ElapsedTimes :
        (Update(e) /\ accel_x = 0 /\ on_ground) =>
            /\ Leq(Zero, velocity_x) =>
                   (Leq(Zero, velocity_x') /\ Leq(velocity_x', velocity_x))
            /\ Leq(velocity_x, Zero) =>
                   (Leq(velocity_x, velocity_x') /\ Leq(velocity_x', Zero))]_vars

\* C7 witness: friction has slowed a grounded player without stopping it
\* (it landed with velocity_x = 12800/102400 and one update of 100 ms took
\* 100 * FRICTION = 5100/102400 less 100 small steps).
C7_Witness ==
    /\ frames = 2
    /\ on_ground
    /\ accel_x = 0
    /\ elapsed_time = 100
    /\ velocity_x = Minus(Whole(12800), Times(FRICTION, 100))
    /\ velocity_x = Fine(7700, 100)

\* the time one frame of the stand-alone sprite is shown, N*(that) is a period
AnimFrameTime == 1000 \div anim.fps

\* the source-rectangle x the stand-alone sprite was built with
AnimOrigin == TileToPixel(anim.offset[1])

\* C8 as stated: whenever the elapsed times fed so far sum to exactly
\* N*(1000/F) ms, the sprite is at frame 0 and at its original offset.
C8_CycleClosure_ExactSum ==
    anim_total = anim.num_frames * AnimFrameTime =>
        /\ anim.current_frame = 0
        /\ anim.source_rect.x = AnimOrigin

\* C8, amended: the sprite's frame is the number of frame advances modulo N
\* and its source rectangle is that many frame widths from the original
\* offset, so after exactly N advances it is back at frame 0 and the original
\* offset.  Each advance uses up more than 1000/F ms, so k > 0 advances need
\* more than k*(1000/F) ms: a sprite of N >= 2 frames fed exactly N*(1000/F)
\* ms has advanced at least once and fewer than N times, and is not at frame 0.
C8_CycleClosure ==
    /\ anim.current_frame = anim_ticks % anim.num_frames
    /\ anim.source_rect.x = AnimOrigin + (anim.current_frame * anim.source_rect.w)
    /\ anim.source_rect.y = TileToPixel(anim.offset[2])
    /\ anim_ticks = anim.num_frames =>
           (anim.current_frame = 0 /\ anim.source_rect.x = AnimOrigin)
    /\ anim_ticks > 0 => anim_total > anim_ticks * AnimFrameTime
    /\ anim_total >= (anim_ticks * AnimFrameTime) + anim.last_update
    /\ (anim.num_frames >= 2 /\ anim_total = anim.num_frames * AnimFrameTime) =>
           /\ anim_ticks \in 1..(anim.num_frames - 1)
           /\ anim.current_frame # 0
           /\ anim.source_rect.x # AnimOrigin

\* C8 witness: a sprite of three frames has advanced three times and is back
\* at frame 0, having been fed more than a period.
C8_Witness ==
    /\ anim.num_frames = 3
    /\ anim_ticks = 3
    /\ anim.current_frame = 0
    /\ anim_total > anim.num_frames * AnimFrameTime

\* C9: the sprite map always holds an entry for the current movement key,
\* and its key set is always the full set of 5*2*3 combinations.
C9_SpriteForEveryKey ==
    /\ movement \in DOMAIN sprites
    /\ DOMAIN sprites = MotionTup
    /\ Cardinality(DOMAIN sprites) = 30

\* C9 witness: two updates and control calls have brought the movement key
\* to a combination far from the initial one.
C9_Witness ==
    /\ frames = 2
    /\ movement = <<"Interacting", "West", "Down">>

\* C10: look_down while the key's Motion is Walking, or while Looking is
\* already Down, changes no field of the player.
C10_LookDownSuppressed ==
    [][(LookDown /\ (movement[1] = "Walking" \/ movement[3] = "Down"))
        => UNCHANGED playerVars]_vars

\* C10 witness: a look_down has been taken by a grounded player whose key is
\* (Walking, _, Up) and that is not interacting, and has left all of that as
\* it is: the state is one from which LookDown can be taken (an update can
\* still follow) and its LookDown step leads back to it.
C10_Witness ==
    /\ movement[1] = "Walking"
    /\ movement[3] = "Up"
    /\ on_ground
    /\ ~is_interacting
    /\ frames > 0
    /\ Controllable
    /\ PlayerLookDown(Self) = Self

\* C11: a look_down that is not suppressed (Looking is not Down, Motion is not
\* Walking) sets Looking to Down, keeps Motion and Facing, and leaves the
\* interacting flag equal to on_ground at the time of the call; it changes no
\* other field.
C11_LookDown ==
    [][(LookDown /\ movement[3] # "Down" /\ movement[1] # "Walking") =>
        /\ movement' = <<movement[1], movement[2], "Down">>
        /\ is_interacting' = on_ground
        /\ UNCHANGED <<x, y, on_ground, elapsed_time, velocity_x, velocity_y,
                       accel_x, is_jump_active, sprites>>]_vars

\* C11 witness: look_down has been called on the ground since the last
\* update: the key is still Standing, Looking is Down, the flag is set.
C11_Witness ==
    /\ movement[1] = "Standing"
    /\ movement[3] = "Down"
    /\ on_ground
    /\ is_interacting

\* C12: start_moving_left clears is_interacting, sets Facing to West and
\* accel_x to -1; start_moving_right clears is_interacting, sets Facing to
\* East and accel_x to 1; both leave Motion, Looking, position, velocities,
\* on_ground, jump-held and every other field as they are.
C12_StartMoving ==
    [][/\ StartMovingLeft =>
            /\ is_interacting' = FALSE
            /\ movement' = <<movement[1], "West", movement[3]>>
            /\ accel_x' = -1
            /\ UNCHANGED <<x, y, on_ground, elapsed_time, velocity_x,
                           velocity_y, is_jump_active, sprites>>
       /\ StartMovingRight =>
            /\ is_interacting' = FALSE
            /\ movement' = <<movement[1], "East", movement[3]>>
            /\ accel_x' = 1
            /\ UNCHANGED <<x, y, on_ground, elapsed_time, velocity_x,
                           velocity_y, is_jump_active, sprites>>]_vars

\* C12 witness: start_moving_left has been called on an interacting player
\* since the last update: the key's Motion is still Interacting, the flag is
\* cleared, Facing is West and the intent is -1.
C12_Witness ==
    /\ movement = <<"Interacting", "West", "Down">>
    /\ ~is_interacting
    /\ accel_x = -1
    /\ on_ground

\* C13: stop_moving sets accel_x to 0 and changes nothing else.
C13_StopMoving ==
    [][StopMoving =>
        /\ accel_x' = 0
        /\ UNCHANGED <<x, y, movement, on_ground, elapsed_time, velocity_x,
                       velocity_y, is_interacting, is_jump_active, sprites>>]_vars

\* C13 witness: stop_moving has been called on a walking player since the
\* last update: the intent is 0, the player still moves and faces West.
C13_Witness ==
    /\ accel_x = 0
    /\ movement[1] = "Walking"
    /\ movement[2] = "West"
    /\ Less(velocity_x, Zero)
    /\ on_ground

\* C14: no update ever fails an assertion of the collision helpers: update_x
\* and update_y call left_collision and top_collision with delta <= 0 and
\* right_collision and bottom_collision with delta >= 0, in every reachable
\* state and for every elapsed time.
C14_AssertionsHold ==
    /\ ~failed
    /\ \A e \in ElapsedTimes : PlayerUpdateAsserts(Self, e)

\* C14 witness: two updates have run and the second moved the player left
\* and up, so left_collision and top_collision were called with a negative
\* delta (and the first, falling to the right, called the other two with a
\* positive one).
C14_Witness ==
    /\ frames = 2
    /\ ~failed
    /\ elapsed_time > 0
    /\ Less(velocity_x, Zero)
    /\ velocity_y < 0

\* the positions of the Wall scan_tiles in the sequence handed back
WallAt == {i \in DOMAIN scan_tiles : scan_tiles[i].tile_type = "Wall"}

\* C15: get_collision_info reports collided exactly when the sequence holds a
\* Wall tile, and then with the row and col of the first Wall tile of the
\* sequence, whatever Wall tiles follow it.
C15_FirstMatch ==
    scan_info # <<>> =>
        /\ scan_info[1].collided <=> WallAt # {}
        /\ scan_info[1].collided =>
               \E i \in WallAt :
                   /\ \A j \in 1..(i - 1) : scan_tiles[j].tile_type # "Wall"
                   /\ scan_info[1].row = scan_tiles[i].row
                   /\ scan_info[1].col = scan_tiles[i].col

\* C15 witness: the scanned sequence starts with an Air tile and holds two
\* Wall scan_tiles at different places; the Info is that of the first of them.
C15_Witness ==
    /\ scan_info # <<>>
    /\ Len(scan_tiles) = 3
    /\ scan_tiles[1].tile_type = "Air"
    /\ scan_tiles[2].tile_type = "Wall"
    /\ scan_tiles[3].tile_type = "Wall"
    /\ scan_tiles[2].row # scan_tiles[3].row
    /\ scan_tiles[2].col # scan_tiles[3].col
    /\ scan_info[1] = [collided |-> TRUE, row |-> scan_tiles[2].row, col |-> scan_tiles[2].col]

\* the state update_x starts from in Player.update(e)
BeforeX(e) == [Self EXCEPT !.elapsed_time = e]

\* the deltas of update_x and of update_y in Player.update(e); update_y runs
\* on the x that update_x has left
SweepDeltaX(e) == Times(NextVelocityX(BeforeX(e)), e)

SweepDeltaY(e, newx) == NextVelocityY(BeforeY(e, newx)) * e

\* a Wall tile of column c reaches into the rows of the X box at height py
WallInXRows(py, c) ==
    \E r \in InsideRows(py + Top(X_BOX), py + Bottom(X_BOX)) : TileType(r, c) = "Wall"

\* a Wall tile of row r reaches into the columns of the Y box at px
WallInYCols(px, r) ==
    \E c \in InsideCols(Plus(px, Left(Y_BOX)), Plus(px, Right(Y_BOX))) :
        TileType(r, c) = "Wall"

\* update_x of this step has kept the X box out of every Wall tile of its
\* rows that lay ahead of it
NoTunnelX(e) ==
    LET dx == SweepDeltaX(e)
    IN  (/\ ~Penetrates(XBoxAt(x, y))
         /\ dx # Zero
         /\ Leq(dx, Whole(TileToGame(1))) /\ Leq(Neg(dx), Whole(TileToGame(1)))) =>
            \A c \in 0..7 :
                /\ (/\ Less(Zero, dx) /\ WallInXRows(y, c)
                    /\ Leq(Plus(x, Right(X_BOX)), Whole(TileToGame(c))))
                       => Leq(Plus(x', Right(X_BOX)), Whole(TileToGame(c)))
                /\ (/\ Less(dx, Zero) /\ WallInXRows(y, c)
                    /\ Leq(Whole(TileToGame(c + 1)), Plus(x, Left(X_BOX))))
                       => Leq(Whole(TileToGame(c + 1)), Plus(x', Left(X_BOX)))

\* update_y of this step has kept the Y box out of every Wall tile of its
\* columns that lay ahead of it
NoTunnelY(e) ==
    LET dy == SweepDeltaY(e, x')
    IN  (/\ ~Penetrates(YBoxAt(x', y))
         /\ dy # 0 /\ dy <= TileToGame(1) /\ -dy <= TileToGame(1)) =>
            \A r \in 0..7 :
                /\ (dy > 0 /\ WallInYCols(x', r) /\ TileToGame(r) >= y + Bottom(Y_BOX))
                       => y' + Bottom(Y_BOX) <= TileToGame(r)
                /\ (dy < 0 /\ WallInYCols(x', r) /\ TileToGame(r + 1) <= y + Top(Y_BOX))
                       => y' + Top(Y_BOX) >= TileToGame(r + 1)

\* C16: an update whose horizontal delta is at most one tile width, started
\* with the X box outside every Wall, leaves the X box's leading edge at or
\* before the near edge of every Wall tile of its rows ahead of it; the same
\* for update_y, the Y box and one tile height.
C16_NoTunnel ==
    [][\A e \in SweepTimes : SweepUpdate(e) => (NoTunnelX(e) /\ NoTunnelY(e))]_vars

\* C17: one call of AnimatedSprite.update adds elapsed to the accumulator; if
\* that exceeds 1000/fps it resets the accumulator to 0 (the excess is
\* dropped), moves to frame (frame + 1) mod num_frames and puts the source
\* rectangle at origin + frame * width; otherwise frame and source rectangle
\* stay.  Nothing else of the sprite changes.  In every reachable state
\* 0 <= current_frame < num_frames and source_rect.x = origin +
\* current_frame * source_rect.w.
C17_OneFramePerCall ==
    /\ [](/\ anim.num_frames >= 1
          /\ 0 <= anim.current_frame
          /\ anim.current_frame < anim.num_frames
          /\ anim.source_rect.x = AnimOrigin + (anim.current_frame * anim.source_rect.w))
    /\ [][\A e \in AnimTimes : AnimUpdate(e) =>
            /\ IF anim.last_update + e > 1000 \div anim.fps
               THEN /\ anim'.last_update = 0
                    /\ anim'.current_frame = (anim.current_frame + 1) % anim.num_frames
                    /\ anim'.source_rect.x =
                           AnimOrigin + (anim'.current_frame * anim.source_rect.w)
               ELSE /\ anim'.last_update = anim.last_update + e
                    /\ anim'.current_frame = anim.current_frame
                    /\ anim'.source_rect.x = anim.source_rect.x
            /\ anim' = [anim EXCEPT !.last_update = anim'.last_update,
                                    !.current_frame = anim'.current_frame,
                                    !.source_rect.x = anim'.source_rect.x]]_vars

\* C17 witness: a sprite of three frames at 20 fps has been fed 150 ms, three
\* frame intervals, and has advanced once: it is at frame 1 with an empty
\* accumulator.
C17_Witness ==
    /\ anim.num_frames = 3
    /\ anim.fps = 20
    /\ anim_total = 150
    /\ anim_ticks = 1
    /\ anim.current_frame = 1
    /\ anim.last_update = 0

\* the velocity_y the claim prescribes for an update_y of elapsed e that
\* starts from the current state
PrescribedVelocityY(e) ==
    LET g == IF is_jump_active /\ velocity_y < 0 THEN JUMP_GRAVITY ELSE GRAVITY
    IN  Min(velocity_y + (g * e), MAX_VELOCITY_Y)

\* C18: update_y adds JUMP_GRAVITY * elapsed to velocity_y exactly when the
\* jump is held and velocity_y is negative before the update, and GRAVITY *
\* elapsed in every other case (jump released, or velocity_y >= 0 with the
\* jump still held), up to the fall-speed cap; an update whose update_y finds
\* no Wall ends with that velocity.
C18_JumpGravity ==
    /\ [](\A e \in ElapsedTimes :
            /\ GravityOf(Self) \in {JUMP_GRAVITY, GRAVITY}
            /\ GravityOf(Self) = JUMP_GRAVITY <=> (is_jump_active /\ velocity_y < 0)
            /\ NextVelocityY(BeforeY(e, x)) = PrescribedVelocityY(e))
    /\ [][\A e \in ElapsedTimes :
            (Update(e) /\ NoCollisionY(BeforeY(e, x')))
            => velocity_y' = PrescribedVelocityY(e)]_vars

\* C18 witness: a jump started on the ground and held through an update of
\* 100 ms: the player rises with -JUMP_SPEED + JUMP_GRAVITY * 100.
C18_Witness ==
    /\ frames = 2
    /\ is_jump_active
    /\ elapsed_time = 100
    /\ velocity_y = (-JUMP_SPEED) + (JUMP_GRAVITY * 100)
    /\ ~on_ground

\* C19 as stated: an update leaves the Facing and Looking components of the
\* movement key as they are; a step that changes Facing is start_moving_left
\* or start_moving_right, a step that changes Looking is look_up, look_down
\* or look_horizontal.
C19_FacingLookingKept_ControlsOnly ==
    [][/\ \A e \in ElapsedTimes :
            Update(e) => (movement'[2] = movement[2] /\ movement'[3] = movement[3])
       /\ movement'[2] # movement[2] => (StartMovingLeft \/ StartMovingRight)
       /\ movement'[3] # movement[3] => (LookUp \/ LookDown \/ LookHorizontal)]_vars

\* C19 amended: an update and a call of current_motion leave the Facing and
\* Looking components of the movement key as they are; a step that changes
\* Facing is start_moving_left, start_moving_right or a call of the public
\* set_facing, a step that changes Looking is look_up, look_down,
\* look_horizontal or a call of the public set_looking.
C19_FacingLookingKept ==
    [][/\ \A e \in ElapsedTimes :
            Update(e) => (movement'[2] = movement[2] /\ movement'[3] = movement[3])
       /\ CallCurrentMotion =>
            (movement'[2] = movement[2] /\ movement'[3] = movement[3])
       /\ movement'[2] # movement[2] =>
            (StartMovingLeft \/ StartMovingRight \/ \E d \in Facing : CallSetFacing(d))
       /\ movement'[3] # movement[3] =>
            (LookUp \/ LookDown \/ LookHorizontal \/ \E d \in Looking : CallSetLooking(d))]_vars

\* C19 witness: two updates have run and changed the Motion of the key (the
\* initial Standing has become Falling) while the Facing and Looking set by
\* control calls before them are still there.
C19_Witness ==
    /\ frames = 2
    /\ movement = <<"Falling", "West", "Up">>
    /\ ~on_ground

\* C20: the movement key never has Motion = Walking together with
\* Looking = Down.
C20_NeverWalkingDown ==
    ~(movement[1] = "Walking" /\ movement[3] = "Down")

\* C21: a new player has the key (Standing, East, Horizontal) and both
\* velocities 0, and while no control operation is called no update makes
\* its Motion Walking or changes its x.
C21_NewPlayerStandsStill ==
    /\ [](frames = 0 =>
            /\ movement = <<"Standing", "East", "Horizontal">>
            /\ velocity_x = Zero
            /\ velocity_y = 0)
    /\ [](movement[1] # "Walking")
    /\ [][x' = x]_vars

\* C22: velocity_x always lies between -MAX_VELOCITY_X and MAX_VELOCITY_X.
C22_VelocityXBounded ==
    /\ Leq(Neg(Whole(MAX_VELOCITY_X)), velocity_x)
    /\ Leq(velocity_x, Whole(MAX_VELOCITY_X))

\* C22 witness: after a first update that left the player on the ground, a
\* second one of 400 ms with the intent to the left has taken velocity_x to
\* the cap -MAX_VELOCITY_X, which 400 ms of walking acceleration overshoot.
C22_Witness ==
    /\ frames = 2
    /\ elapsed_time = 400
    /\ accel_x = -1
    /\ movement[1] = "Walking"
    /\ velocity_x = Neg(Whole(MAX_VELOCITY_X))

\* C23: after an update, on_ground holds only if the tile map reports a Wall
\* for the player's bottom collision rectangle with delta 0 at the position
\* the update has left.
C23_OnGroundConsistent ==
    (frames > 0 /\ on_ground) =>
        GetCollisionInfo(BottomCollision(Self, 0)).collided

====
